---- MODULE Spec2Model ----
\* Ownership, scope and move semantics of src/main.rs: the run of main
\* (string_literals, mutable_strings, take_ownership, give_ownership) over an
\* explicit heap, and the String operations the run is built from.
EXTENDS Integers, Sequences, FiniteSets, TLC

VARIABLES pc, lits, env, heap, allocs, out, calls, op

vars == <<pc, lits, env, heap, allocs, out, calls, op>>

\* ---------------------------------------------------------------- bounds

\* number of heap addresses the allocator hands out
HeapSize == 3
\* longest literal drawn for String::from / push_str in TextSpec
MaxLitLen == 2
\* longest text built in TextSpec
MaxTextLen == 2

Chars == {"a", "b"}

Addrs == 1..HeapSize

\* ---------------------------------------------------------------- literals

Hello == <<"h","e","l","l","o">>
Goodbye == <<"g","o","o","d","b","y","e">>
HelloString == <<"h","e","l","l","o"," ","s","t","r","i","n","g">>
FromWorld == <<","," ","f","r","o","m"," ","w","o","r","l","d","!">>
Banana == <<"b","a","n","a","n","a">>
Apple == <<"a","p","p","l","e">>

\* ---------------------------------------------------------------- bindings

\* the String bindings of the program, by function
Bindings == {"ms_s", "ms_s1", "to_some_string", "go_some_string",
             "main_s1", "main_s2", "main_s3"}

\* the &str bindings of string_literals
LitBindings == {"s", "ns"}

\* a binding not yet declared; ptr 0 is no heap address
Unborn == [st |-> "unborn", ptr |-> 0, len |-> 0, cap |-> 0]

\* a heap cell the allocator holds no block in
FreeCell == [used |-> FALSE, data |-> <<>>]

\* a byte of a buffer that was reserved and never written
Uninit == "?"

Max(a, b) == IF a >= b THEN a ELSE b

\* the machine state the String operations work on; used collects the bindings
\* a step reads, mutates, moves or releases through
Cur == [env |-> env, heap |-> heap, allocs |-> allocs, used |-> {}]

FreeAddrs(S) == {a \in Addrs : ~S.heap[a].used}

\* a buffer of n bytes holding s and an unwritten tail
Pad(s, n) == s \o [i \in 1..(n - Len(s)) |-> Uninit]

\* memcpy of s into buffer d at offset off
WriteAt(d, off, s) ==
  [i \in 1..Len(d) |-> IF i > off /\ i <= off + Len(s) THEN s[i - off] ELSE d[i]]

\* the len bytes binding b points at (as_str)
Content(S, b) ==
  LET v == S.env[b]
      d == IF v.ptr \in Addrs THEN S.heap[v.ptr].data ELSE <<>>
  IN [i \in 1..v.len |-> IF i <= Len(d) THEN d[i] ELSE Uninit]

\* index of the allocation that holds address a: the one not yet released, else
\* the latest one released there (0: none)
LastAt(S, a) ==
  LET idx == {i \in 1..Len(S.allocs) : S.allocs[i].addr = a}
      held == {i \in idx : S.allocs[i].frees = 0}
      pick == IF held # {} THEN held ELSE idx
  IN IF pick = {} THEN 0 ELSE CHOOSE i \in pick : \A j \in pick : j <= i

\* the allocator hands out the block at a
AllocAt(S, a, data) ==
  [S EXCEPT !.heap[a] = [used |-> TRUE, data |-> data],
            !.allocs = Append(@, [addr |-> a, frees |-> 0])]

\* the allocator takes back the block at a
Dealloc(S, a) ==
  LET i == LastAt(S, a)
  IN IF i = 0 THEN S
     ELSE [S EXCEPT !.heap[a] = FreeCell, !.allocs[i].frees = @ + 1]

\* the block at old grows to data, in place (new = old) or at a free address
Realloc(S, old, new, data) ==
  LET i == LastAt(S, old)
  IN [S EXCEPT !.heap[old] = FreeCell,
               !.heap[new] = [used |-> TRUE, data |-> data],
               !.allocs[i].addr = new]

\* a growth that doubles and never looks at the bytes needed
GrowDoubling(cap, need) == 2 * cap

\* capacity after a growth to hold need bytes
GrowAmortized(cap, need) == Max(Max(2 * cap, need), 8)

\* String::from(lit) bound to b: exact capacity, no block for an empty text
StringFrom(S, b, lit, a) ==
  IF Len(lit) = 0
  THEN [S EXCEPT !.env[b] = [st |-> "live", ptr |-> 0, len |-> 0, cap |-> 0]]
  ELSE [AllocAt(S, a, lit) EXCEPT
          !.env[b] = [st |-> "live", ptr |-> a, len |-> Len(lit), cap |-> Len(lit)]]

\* the addresses String::from may be given
FromChoices(S, lit) == IF Len(lit) = 0 THEN {0} ELSE FreeAddrs(S)

\* the addresses push_str may end up at
PushChoices(S, b, suf) ==
  LET v == S.env[b]
  IN IF v.len + Len(suf) <= v.cap THEN {v.ptr}
     ELSE IF v.cap = 0 THEN FreeAddrs(S)
     ELSE FreeAddrs(S) \cup {v.ptr}

\* a push_str whose growth reserves a new buffer and does not copy the old bytes
PushStrNoCopy(S, b, suf, a) ==
  LET v == S.env[b]
      need == v.len + Len(suf)
      S0 == [S EXCEPT !.used = @ \cup {b}]
  IN IF need <= v.cap
     THEN IF v.cap = 0 THEN S0
          ELSE [S0 EXCEPT !.heap[v.ptr].data = WriteAt(@, v.len, suf),
                          !.env[b].len = need]
     ELSE LET ncap == GrowAmortized(v.cap, need)
              data == WriteAt(Pad(<<>>, ncap), v.len, suf)
              S1 == IF v.cap = 0 THEN AllocAt(S0, a, data)
                    ELSE Realloc(S0, v.ptr, a, data)
          IN [S1 EXCEPT !.env[b] = [st |-> "live", ptr |-> a,
                                    len |-> need, cap |-> ncap]]

\* b.push_str(suf), the buffer ending at address a
PushStr(S, b, suf, a) ==
  LET v == S.env[b]
      need == v.len + Len(suf)
      S0 == [S EXCEPT !.used = @ \cup {b}]
  IN IF need <= v.cap
     THEN IF v.cap = 0 THEN S0
          ELSE [S0 EXCEPT !.heap[v.ptr].data = WriteAt(@, v.len, suf),
                          !.env[b].len = need]
     ELSE LET ncap == GrowAmortized(v.cap, need)
              data == WriteAt(Pad(Content(S, b), ncap), v.len, suf)
              S1 == IF v.cap = 0 THEN AllocAt(S0, a, data)
                    ELSE Realloc(S0, v.ptr, a, data)
          IN [S1 EXCEPT !.env[b] = [st |-> "live", ptr |-> a,
                                    len |-> need, cap |-> ncap]]

\* a transfer that copies the handle and leaves src usable
MoveCopy(S, src, dst) ==
  [S EXCEPT !.env[dst] = [S.env[src] EXCEPT !.st = "live"],
            !.used = @ \cup {src}]

\* a transfer that hands over the pointer and loses the length
MoveLoseLen(S, src, dst) ==
  [S EXCEPT !.env[dst] = [S.env[src] EXCEPT !.st = "live", !.len = 0],
            !.env[src].st = "moved",
            !.used = @ \cup {src}]

\* let dst = src: the handle is handed over, src is moved from
MoveTo(S, src, dst) ==
  [S EXCEPT !.env[dst] = [S.env[src] EXCEPT !.st = "live"],
            !.env[src].st = "moved",
            !.used = @ \cup {src}]

\* a clone that copies the handle and shares the block
CloneShallow(S, src, dst, a) ==
  [S EXCEPT !.env[dst] = [S.env[src] EXCEPT !.st = "live"],
            !.used = @ \cup {src}]

\* let dst = src.clone(): a new block of exactly len bytes
Clone(S, src, dst, a) ==
  LET c == Content(S, src)
      S0 == [S EXCEPT !.used = @ \cup {src}]
  IN IF Len(c) = 0
     THEN [S0 EXCEPT !.env[dst] = [st |-> "live", ptr |-> 0, len |-> 0, cap |-> 0]]
     ELSE [AllocAt(S0, a, c) EXCEPT
             !.env[dst] = [st |-> "live", ptr |-> a, len |-> Len(c), cap |-> Len(c)]]

\* a scope exit that releases through every binding, moved from or not
DropAlways(S, b) ==
  LET v == S.env[b]
      S0 == [S EXCEPT !.used = @ \cup {b}, !.env[b].st = "dead"]
  IN IF v.cap > 0 THEN Dealloc(S0, v.ptr) ELSE S0

\* a scope exit that forgets the storage
DropLeak(S, b) == [S EXCEPT !.env[b].st = "dead"]

\* b leaves scope: its storage is released unless b was moved from
Drop(S, b) ==
  LET v == S.env[b]
  IN IF v.st # "live" THEN [S EXCEPT !.env[b].st = "dead"]
     ELSE LET S0 == [S EXCEPT !.used = @ \cup {b}, !.env[b].st = "dead"]
          IN IF v.cap > 0 THEN Dealloc(S0, v.ptr) ELSE S0

\* the closing brace of a function: its bindings drop in reverse declaration order
RECURSIVE ScopeExit(_, _)
ScopeExit(S, bs) ==
  IF bs = <<>> THEN S ELSE ScopeExit(Drop(S, Head(bs)), Tail(bs))

\* a use of binding b as the borrow checker judges it
Read(S, b) ==
  IF S.env[b].st = "live" THEN [ok |-> TRUE, val |-> Content(S, b)]
  ELSE [ok |-> FALSE, val |-> <<>>]

\* println!("{}", b)
Println(S, b) == [S EXCEPT !.used = @ \cup {b}]

\* println!("{b}") of a &str binding of string_literals
PrintLit(S, b) == [S EXCEPT !.used = @ \cup {b}]

\* ---------------------------------------------------------------- steps

Commit(S, name, dst, arg) ==
  /\ env' = S.env
  /\ heap' = S.heap
  /\ allocs' = S.allocs
  /\ op' = [name |-> name, used |-> S.used, dst |-> dst, arg |-> arg]

Init ==
  /\ pc = "L65"
  /\ lits = [b \in LitBindings |-> [st |-> "unborn", val |-> <<>>]]
  /\ env = [b \in Bindings |-> Unborn]
  /\ heap = [a \in Addrs |-> FreeCell]
  /\ allocs = <<>>
  /\ out = <<>>
  /\ calls = <<>>
  /\ op = [name |-> "start", used |-> {}, dst |-> "", arg |-> <<>>]

Call_string_literals ==
  /\ pc = "L65"
  /\ pc' = "L7"
  /\ calls' = Append(calls, "string_literals")
  /\ Commit(Cur, "call", "", <<>>)
  /\ UNCHANGED <<lits, out>>

SL_let_s ==
  /\ pc = "L7"
  /\ pc' = "L11"
  /\ lits' = [lits EXCEPT !["s"] = [st |-> "live", val |-> Hello]]
  /\ Commit(Cur, "let_lit", "", Hello)
  /\ UNCHANGED <<out, calls>>

SL_let_ns ==
  /\ pc = "L11"
  /\ pc' = "L14"
  /\ lits' = [lits EXCEPT !["ns"] = [st |-> "live", val |-> Goodbye]]
  /\ Commit(Cur, "let_lit", "", Goodbye)
  /\ UNCHANGED <<out, calls>>

SL_print_ns ==
  /\ pc = "L14"
  /\ pc' = "L17"
  /\ out' = Append(out, lits["ns"].val)
  /\ Commit(PrintLit(Cur, "ns"), "print_lit", "", <<>>)
  /\ UNCHANGED <<lits, calls>>

SL_block_end ==
  /\ pc = "L17"
  /\ pc' = "L20"
  /\ lits' = [lits EXCEPT !["ns"] = [st |-> "dead", val |-> <<>>]]
  /\ Commit(Cur, "block_end", "", <<>>)
  /\ UNCHANGED <<out, calls>>

SL_print_s ==
  /\ pc = "L20"
  /\ pc' = "L25"
  /\ out' = Append(out, lits["s"].val)
  /\ Commit(PrintLit(Cur, "s"), "print_lit", "", <<>>)
  /\ UNCHANGED <<lits, calls>>

SL_return ==
  /\ pc = "L25"
  /\ pc' = "L69"
  /\ lits' = [lits EXCEPT !["s"] = [st |-> "dead", val |-> <<>>]]
  /\ Commit(Cur, "scope_exit", "", <<>>)
  /\ UNCHANGED <<out, calls>>

Call_mutable_strings ==
  /\ pc = "L69"
  /\ pc' = "L32"
  /\ calls' = Append(calls, "mutable_strings")
  /\ Commit(Cur, "call", "", <<>>)
  /\ UNCHANGED <<lits, out>>

MS_from ==
  /\ pc = "L32"
  /\ pc' = "L35"
  /\ \E a \in FromChoices(Cur, HelloString) :
       Commit(StringFrom(Cur, "ms_s", HelloString, a), "from", "ms_s", HelloString)
  /\ UNCHANGED <<lits, out, calls>>

MS_push_str ==
  /\ pc = "L35"
  /\ pc' = "L37"
  /\ \E a \in PushChoices(Cur, "ms_s", FromWorld) :
       Commit(PushStr(Cur, "ms_s", FromWorld, a), "push_str", "", FromWorld)
  /\ UNCHANGED <<lits, out, calls>>

MS_print_s ==
  /\ pc = "L37"
  /\ pc' = "L43"
  /\ out' = Append(out, Read(Cur, "ms_s").val)
  /\ Commit(Println(Cur, "ms_s"), "print", "", <<>>)
  /\ UNCHANGED <<lits, calls>>

MS_move ==
  /\ pc = "L43"
  /\ pc' = "L49"
  /\ Commit(MoveTo(Cur, "ms_s", "ms_s1"), "move", "ms_s1", <<>>)
  /\ UNCHANGED <<lits, out, calls>>

\* line 46 in place of line 49: s printed after the move
MS_print_moved ==
  /\ pc = "L49"
  /\ pc' = "L52"
  /\ out' = Append(out, Read(Cur, "ms_s").val)
  /\ Commit(Println(Cur, "ms_s"), "print", "", <<>>)
  /\ UNCHANGED <<lits, calls>>

MS_print_s1 ==
  /\ pc = "L49"
  /\ pc' = "L52"
  /\ out' = Append(out, Read(Cur, "ms_s1").val)
  /\ Commit(Println(Cur, "ms_s1"), "print", "", <<>>)
  /\ UNCHANGED <<lits, calls>>

MS_return ==
  /\ pc = "L52"
  /\ pc' = "L76"
  /\ Commit(ScopeExit(Cur, <<"ms_s1", "ms_s">>), "scope_exit", "", <<>>)
  /\ UNCHANGED <<lits, out, calls>>

Main_let_s1 ==
  /\ pc = "L76"
  /\ pc' = "L78"
  /\ \E a \in FromChoices(Cur, Banana) :
       Commit(StringFrom(Cur, "main_s1", Banana, a), "from", "main_s1", Banana)
  /\ UNCHANGED <<lits, out, calls>>

Call_take_ownership ==
  /\ pc = "L78"
  /\ pc' = "L55"
  /\ calls' = Append(calls, "take_ownership")
  /\ Commit(MoveTo(Cur, "main_s1", "to_some_string"), "pass", "to_some_string", <<>>)
  /\ UNCHANGED <<lits, out>>

TO_print ==
  /\ pc = "L55"
  /\ pc' = "L56"
  /\ out' = Append(out, Read(Cur, "to_some_string").val)
  /\ Commit(Println(Cur, "to_some_string"), "print", "", <<>>)
  /\ UNCHANGED <<lits, calls>>

TO_return ==
  /\ pc = "L56"
  /\ pc' = "L85"
  /\ Commit(ScopeExit(Cur, <<"to_some_string">>), "scope_exit", "", <<>>)
  /\ UNCHANGED <<lits, out, calls>>

Main_let_s2 ==
  /\ pc = "L85"
  /\ pc' = "L87"
  /\ \E a \in FromChoices(Cur, Apple) :
       Commit(StringFrom(Cur, "main_s2", Apple, a), "from", "main_s2", Apple)
  /\ UNCHANGED <<lits, out, calls>>

Call_give_ownership ==
  /\ pc = "L87"
  /\ pc' = "L59"
  /\ calls' = Append(calls, "give_ownership")
  /\ Commit(MoveTo(Cur, "main_s2", "go_some_string"), "pass", "go_some_string", <<>>)
  /\ UNCHANGED <<lits, out>>

\* a give_ownership that returns its argument and prints nothing
GO_silent ==
  /\ pc = "L59"
  /\ pc' = "L60"
  /\ Commit(Cur, "print", "", <<>>)
  /\ UNCHANGED <<lits, out, calls>>

GO_print ==
  /\ pc = "L59"
  /\ pc' = "L60"
  /\ out' = Append(out, Read(Cur, "go_some_string").val)
  /\ Commit(Println(Cur, "go_some_string"), "print", "", <<>>)
  /\ UNCHANGED <<lits, calls>>

\* a give_ownership whose scope exit releases the text it then hands back
GO_return_dropped ==
  /\ pc = "L60"
  /\ pc' = "L89"
  /\ Commit(MoveTo(ScopeExit(Cur, <<"go_some_string">>), "go_some_string", "main_s3"),
            "return", "main_s3", <<>>)
  /\ UNCHANGED <<lits, out, calls>>

GO_return ==
  /\ pc = "L60"
  /\ pc' = "L89"
  /\ Commit(ScopeExit(MoveTo(Cur, "go_some_string", "main_s3"), <<"go_some_string">>),
            "return", "main_s3", <<>>)
  /\ UNCHANGED <<lits, out, calls>>

Main_print_s3 ==
  /\ pc = "L89"
  /\ pc' = "L90"
  /\ out' = Append(out, Read(Cur, "main_s3").val)
  /\ Commit(Println(Cur, "main_s3"), "print", "", <<>>)
  /\ UNCHANGED <<lits, calls>>

Main_return ==
  /\ pc = "L90"
  /\ pc' = "done"
  /\ Commit(ScopeExit(Cur, <<"main_s3", "main_s2", "main_s1">>), "scope_exit", "", <<>>)
  /\ UNCHANGED <<lits, out, calls>>

Next ==
  \/ Call_string_literals
  \/ SL_let_s
  \/ SL_let_ns
  \/ SL_print_ns
  \/ SL_block_end
  \/ SL_print_s
  \/ SL_return
  \/ Call_mutable_strings
  \/ MS_from
  \/ MS_push_str
  \/ MS_print_s
  \/ MS_move
  \/ MS_print_s1
  \/ MS_return
  \/ Main_let_s1
  \/ Call_take_ownership
  \/ TO_print
  \/ TO_return
  \/ Main_let_s2
  \/ Call_give_ownership
  \/ GO_print
  \/ GO_return
  \/ Main_print_s3
  \/ Main_return

Spec == Init /\ [][Next]_vars

\* main is one thread that runs to its closing brace
FairSpec == Spec /\ WF_vars(Next)

\* ---------------------------------------------------------------- String operations

\* the literals String::from and push_str are given
Lits == UNION {[1..n -> Chars] : n \in 0..MaxLitLen}

\* the two bindings of mutable_strings, and the parameter of take_ownership
TextBindings == {"ms_s", "ms_s1", "to_some_string"}

TextInit ==
  /\ pc = "ops"
  /\ lits = [b \in LitBindings |-> [st |-> "unborn", val |-> <<>>]]
  /\ env = [b \in Bindings |-> Unborn]
  /\ heap = [a \in Addrs |-> FreeCell]
  /\ allocs = <<>>
  /\ out = <<>>
  /\ calls = <<>>
  /\ op = [name |-> "start", used |-> {}, dst |-> "", arg |-> <<>>]

\* let mut s = String::from(lit), for any literal
OpFrom ==
  /\ pc = "ops"
  /\ env["ms_s"].st = "unborn"
  /\ \E lit \in Lits : \E a \in FromChoices(Cur, lit) :
       Commit(StringFrom(Cur, "ms_s", lit, a), "from", "ms_s", lit)
  /\ UNCHANGED <<pc, lits, out, calls>>

\* b.push_str(suf), for any literal and either binding of mutable_strings
OpPush ==
  /\ pc = "ops"
  /\ \E b \in {"ms_s", "ms_s1"} : \E suf \in Lits :
       /\ env[b].st = "live"
       /\ env[b].len + Len(suf) <= MaxTextLen
       /\ \E a \in PushChoices(Cur, b, suf) :
            Commit(PushStr(Cur, b, suf, a), "push_str", "", suf)
  /\ UNCHANGED <<pc, lits, out, calls>>

\* let s1 = s, or a text passed by ownership
OpMove ==
  /\ pc = "ops"
  /\ \E src \in TextBindings : \E dst \in TextBindings \ {"ms_s"} :
       /\ env[src].st = "live"
       /\ env[dst].st = "unborn"
       /\ Commit(MoveTo(Cur, src, dst), "move", dst, <<>>)
  /\ UNCHANGED <<pc, lits, out, calls>>

\* let s1 = s.clone()
OpClone ==
  /\ pc = "ops"
  /\ env["ms_s"].st = "live"
  /\ env["ms_s1"].st = "unborn"
  /\ \E a \in FromChoices(Cur, Content(Cur, "ms_s")) :
       Commit(Clone(Cur, "ms_s", "ms_s1", a), "clone", "ms_s1", <<>>)
  /\ UNCHANGED <<pc, lits, out, calls>>

\* a binding reaches the end of its scope
OpDrop ==
  /\ pc = "ops"
  /\ \E b \in TextBindings :
       /\ env[b].st \in {"live", "moved"}
       /\ Commit(ScopeExit(Cur, <<b>>), "scope_exit", "", <<>>)
  /\ UNCHANGED <<pc, lits, out, calls>>

TextNext ==
  \/ OpFrom
  \/ OpPush
  \/ OpMove
  \/ OpClone
  \/ OpDrop

\* the run of main, and every bounded sequence of the String operations
TextSpec == (Init \/ TextInit) /\ [][Next \/ TextNext]_vars

\* ---------------------------------------------------------------- properties

Live(b) == env[b].st = "live"

\* the live bindings whose handle points at address a
Owners(a) == {b \in Bindings : Live(b) /\ env[b].cap > 0 /\ env[b].ptr = a}

\* the statements of main's run, in execution order
PcOrder == <<"L65", "L7", "L11", "L14", "L17", "L20", "L25", "L69", "L32", "L35",
             "L37", "L43", "L49", "L52", "L76", "L78", "L55", "L56", "L85", "L87",
             "L59", "L60", "L89", "L90", "done">>

Pos(l) == CHOOSE i \in 1..Len(PcOrder) : PcOrder[i] = l

\* the run has reached statement l
After(l) == pc # "ops" /\ Pos(pc) >= Pos(l)

IsPrefix(s, t) == Len(s) <= Len(t) /\ \A i \in 1..Len(s) : s[i] = t[i]

HelloStringFromWorld ==
  <<"h","e","l","l","o"," ","s","t","r","i","n","g",
    ","," ","f","r","o","m"," ","w","o","r","l","d","!">>

ExpectedOut ==
  <<Goodbye, Hello, HelloStringFromWorld, HelloStringFromWorld, Banana, Apple, Apple>>

ExpectedCalls ==
  <<"string_literals", "mutable_strings", "take_ownership", "give_ownership">>

\* C1: every allocated block has exactly one live owning binding, every released
\* block has none, so no two live bindings ever point at the same storage.
C1_ExclusiveOwnership ==
  \A a \in Addrs :
    /\ heap[a].used => Cardinality(Owners(a)) = 1
    /\ ~heap[a].used => Owners(a) = {}

\* let s1 = s has run in mutable_strings: s1 alone owns the block s pointed at
C1_Witness ==
  /\ pc = "L49"
  /\ env["ms_s"].st = "moved"
  /\ env["ms_s"].ptr = env["ms_s1"].ptr
  /\ Owners(env["ms_s1"].ptr) = {"ms_s1"}

\* C2: a transfer-assignment of a live source leaves the target readable with
\* the source's former content, at the same address with the same length and
\* capacity, the heap untouched and nothing allocated, the target the only
\* owner, and the source rejected from then on.
C2_TransferAssignment ==
  [][/\ \A src \in Bindings : \A dst \in Bindings :
          (op'.name = "move" /\ op'.used = {src} /\ op'.dst = dst /\ Live(src)) =>
             /\ Read(Cur, dst)' = [ok |-> TRUE, val |-> Content(Cur, src)]
             /\ ~Read(Cur, src)'.ok
             /\ env'[dst].ptr = env[src].ptr
             /\ env'[dst].len = env[src].len
             /\ env'[dst].cap = env[src].cap
             /\ heap' = heap
             /\ allocs' = allocs
             /\ \A b \in Bindings \ {dst} :
                  ~(env'[b].st = "live" /\ env'[b].cap > 0 /\ env'[b].ptr = env'[dst].ptr)
     /\ \A b \in Bindings : env[b].st = "moved" => ~Read(Cur, b)'.ok
    ]_vars

\* s1 holds the 25 characters after let s1 = s, and s is moved from
C2_Witness ==
  /\ op.name = "move"
  /\ op.dst = "ms_s1"
  /\ env["ms_s"].st = "moved"
  /\ Read(Cur, "ms_s1") = [ok |-> TRUE, val |-> HelloStringFromWorld]

\* C3: String::from(s1) holds s1, and every push_str(s2) on a live text leaves
\* it holding its former content followed by s2, its length the sum of the two,
\* whether the buffer grew or not; mutable_strings reaches line 37 with the 25
\* characters "hello string, from world!".
C3_Append ==
  /\ [][/\ \A b \in Bindings :
             (op'.name = "from" /\ op'.dst = b) =>
                /\ Read(Cur, b)' = [ok |-> TRUE, val |-> op'.arg]
                /\ env'[b].len = Len(op'.arg)
        /\ \A b \in Bindings :
             (op'.name = "push_str" /\ op'.used = {b} /\ Live(b)) =>
                /\ Read(Cur, b)' = [ok |-> TRUE, val |-> Content(Cur, b) \o op'.arg]
                /\ env'[b].len = env[b].len + Len(op'.arg)
       ]_vars
  /\ [](pc = "L37" =>
          /\ Content(Cur, "ms_s") = HelloStringFromWorld
          /\ env["ms_s"].len = 25)

\* the push_str of line 35 has run and had to grow the 12-byte buffer
C3_Witness ==
  /\ pc = "L37"
  /\ op.name = "push_str"
  /\ env["ms_s"].len = 25
  /\ env["ms_s"].cap > 12

\* C4: once s1 is passed to take_ownership, main's s1 is rejected for the rest
\* of the run; the parameter holds "banana" and its block stays allocated while
\* take_ownership runs and prints it; the block is released when take_ownership
\* returns.
C4_TakeOwnership ==
  /\ After("L55") => ~Read(Cur, "main_s1").ok
  /\ pc \in {"L55", "L56"} =>
       /\ Read(Cur, "to_some_string") = [ok |-> TRUE, val |-> Banana]
       /\ heap[env["to_some_string"].ptr].used
       /\ allocs[2].addr = env["to_some_string"].ptr
       /\ allocs[2].frees = 0
  /\ pc = "L56" => out[Len(out)] = Banana
  /\ After("L85") => allocs[2].frees = 1 /\ env["to_some_string"].st = "dead"

\* take_ownership has returned: the banana block is released, s1 is moved from
C4_Witness ==
  /\ pc = "L85"
  /\ allocs[2].frees = 1
  /\ env["main_s1"].st = "moved"

\* C5: after s3 = give_ownership(s2), s3 reads "apple" until main ends, s2 and
\* the parameter are rejected, and the block is still allocated, not released
\* by give_ownership's scope exit; main goes on to print s3.
C5_GiveOwnership ==
  /\ After("L59") => ~Read(Cur, "main_s2").ok
  /\ pc \in {"L89", "L90"} =>
       /\ Read(Cur, "main_s3") = [ok |-> TRUE, val |-> Apple]
       /\ ~Read(Cur, "go_some_string").ok
       /\ allocs[3].addr = env["main_s3"].ptr
       /\ allocs[3].frees = 0
       /\ heap[env["main_s3"].ptr].used
  /\ pc = "L90" => out[Len(out)] = Apple

\* s3 has been printed after the pass-through
C5_Witness ==
  /\ pc = "L90"
  /\ op.name = "print"
  /\ Read(Cur, "main_s3").val = Apple
  /\ env["main_s2"].st = "moved"

\* C6: s.clone() yields a live text with s's content in a block of its own and
\* leaves s as it was; afterwards a push_str on, a move of or a drop of one of
\* two live texts leaves the other's content, length and liveness unchanged.
C6_CloneIndependence ==
  [][/\ \A src \in Bindings : \A dst \in Bindings :
          (op'.name = "clone" /\ op'.used = {src} /\ op'.dst = dst) =>
             /\ Read(Cur, dst)' = [ok |-> TRUE, val |-> Content(Cur, src)]
             /\ Read(Cur, src)' = Read(Cur, src)
             /\ Read(Cur, src).ok
             /\ env'[src] = env[src]
             /\ env'[dst].len = env[src].len
             /\ env'[dst].cap > 0 =>
                  /\ env'[dst].ptr # env'[src].ptr
                  /\ heap'[env'[dst].ptr].used
     /\ \A x \in Bindings : \A y \in Bindings \ {x} :
          (/\ Live(x) /\ Live(y)
           /\ op'.name \in {"push_str", "move", "scope_exit"}
           /\ op'.used = {x}) =>
             /\ Read(Cur, y)' = Read(Cur, y)
             /\ env'[y].len = env[y].len
             /\ env'[y].st = "live"
    ]_vars

\* the clone was appended to and now differs from the original, both live
C6_Witness ==
  /\ op.name = "push_str"
  /\ op.used = {"ms_s1"}
  /\ Live("ms_s")
  /\ Live("ms_s1")
  /\ Content(Cur, "ms_s") # Content(Cur, "ms_s1")

\* C7: no block is released twice; a block is released only by the scope exit
\* of the live binding that owns it; when no binding is live any more (main has
\* returned) every block has been released exactly once.
C7_ReleaseOnce ==
  /\ [](/\ \A i \in 1..Len(allocs) : allocs[i].frees <= 1
        /\ (\A b \in Bindings : ~Live(b)) =>
              /\ \A i \in 1..Len(allocs) : allocs[i].frees = 1
              /\ \A a \in Addrs : ~heap[a].used)
  /\ [][\A i \in 1..Len(allocs) :
          allocs'[i].frees > allocs[i].frees =>
            /\ op'.name = "scope_exit"
            /\ \E b \in op'.used :
                 /\ Live(b)
                 /\ env[b].cap > 0
                 /\ env[b].ptr = allocs[i].addr
                 /\ env'[b].st = "dead"
       ]_vars

\* main has returned: three blocks were allocated and each released once
C7_Witness ==
  /\ pc = "done"
  /\ Len(allocs) = 3
  /\ \A i \in 1..3 : allocs[i].frees = 1
  /\ env["main_s1"].st = "dead"

\* C8: a binding that is moved from or dead never becomes live again, and no
\* step reads, mutates, moves or releases through a binding that is not live.
C8_OneWay ==
  [][/\ \A b \in Bindings :
          env[b].st \in {"moved", "dead"} => env'[b].st \in {"moved", "dead"}
     /\ \A b \in op'.used \cap Bindings : Live(b)
    ]_vars

\* s1 is printed at line 49 while s stays moved from
C8_Witness ==
  /\ pc = "L52"
  /\ op.name = "print"
  /\ op.used = {"ms_s1"}
  /\ env["ms_s"].st = "moved"

\* C9: every live text has len <= cap, and when it owns a block, the block is
\* allocated, is cap bytes long and has exactly its first len bytes written;
\* a text just built by String::from(s) has length Len(s).
C9_LengthCapacity ==
  /\ \A b \in Bindings :
       Live(b) =>
         /\ env[b].len <= env[b].cap
         /\ env[b].cap > 0 =>
              /\ env[b].ptr \in Addrs
              /\ heap[env[b].ptr].used
              /\ Len(heap[env[b].ptr].data) = env[b].cap
              /\ {i \in 1..env[b].cap : heap[env[b].ptr].data[i] # Uninit} = 1..env[b].len
  /\ op.name = "from" => env[op.dst].len = Len(op.arg)

\* a text that grew past its exact first capacity and was appended to in place
C9_Witness ==
  /\ pc = "ops"
  /\ op.name = "push_str"
  /\ op.used = {"ms_s1"}
  /\ env["ms_s1"].len = 2
  /\ env["ms_s1"].cap > 2

\* C10: main runs to its end; what it has printed and the functions it has
\* called are at every moment a prefix of the expected output and call order and
\* at the end are exactly them; every print reads a binding live at that step.
C10_Run ==
  /\ <>(pc = "done")
  /\ [](/\ IsPrefix(out, ExpectedOut)
        /\ IsPrefix(calls, ExpectedCalls)
        /\ pc = "done" => out = ExpectedOut /\ calls = ExpectedCalls)
  /\ [][/\ \A b \in op'.used \cap Bindings : Live(b)
        /\ \A b \in op'.used \cap LitBindings : lits[b].st = "live"
       ]_vars

\* main has returned having printed the seven lines
C10_Witness ==
  /\ pc = "done"
  /\ Len(out) = 7
  /\ out[7] = Apple
  /\ Len(calls) = 4

====
